---- MODULE Spec2Model ----
(***************************************************************************)
(* Model of the multi-market sector-flow monitor:                          *)
(*   src/stock-monitor/src/multi_market_scheduler.py  (MultiMarketScheduler)*)
(*   src/stock-monitor/src/analyzer.py                (SectorAnalyzer)      *)
(*                                                                         *)
(* One asyncio event loop drives the cron triggers registered by start(),  *)
(* the batch entry points run_once()/run_all_markets() and ad-hoc          *)
(* run_single_market() calls.  run_single_market is an `async def` whose   *)
(* body contains no await: once a job has started, no other callback of    *)
(* the loop runs until it returns.                                         *)
(***************************************************************************)
EXTENDS Integers, Sequences, FiniteSets, TLC

(* ------------------------------ bounds --------------------------------- *)
MaxDay == 1
MaxRuns == 3
MaxUpdates == 1
MaxBatches == 1
MaxFaults == 1

(* --------------------------- basic values ------------------------------ *)
None == [kind |-> "None"]
Str(s) == [kind |-> "str", s |-> s]
IntVal(n) == [kind |-> "int", v |-> n]
Df(rows) == [kind |-> "df", rows |-> rows]

Markets == {"a_share", "us", "hk"}
UnknownMarket == "sg"
MarketOrder == <<"a_share", "us", "hk">>

Slots == <<"06:00", "15:05", "16:05">>
\* the inputs of the calls made on the scheduler
UpdateMarkets == {"hk", UnknownMarket}
UpdateTimes == {"", "06:00"}
UpdateEnabled == {"None", "True", "False"}
AdhocMarkets == {"us", UnknownMarket}

\* datetime.weekday(): Monday is 0; day 0 of the model is a Monday
Monday == 0
StartWeekday == Monday

DEFAULT_SCHEDULES ==
  [m \in Markets |->
     [market |-> m,
      enabled |-> TRUE,
      schedule_time |-> CASE m = "a_share" -> "15:05"
                          [] m = "us" -> "06:00"
                          [] OTHER -> "16:05",
      days_of_week |-> IF m = "us" THEN "tue-sat" ELSE "mon-fri"]]

(* ------------------------------ calendar ------------------------------- *)
Weekday(d) == (StartWeekday + d + 70) % 7

DayOfWeekMatches(expr, d) ==
  CASE expr = "mon-fri" -> Weekday(d) \in 0..4
    [] expr = "tue-sat" -> Weekday(d) \in 1..5
    [] OTHER -> TRUE

Strftime(d) == [form |-> "dash", n |-> d]
ReplaceDash(ds) == [form |-> "compact", n |-> ds.n]
Strptime(ds) == ds.n

WalkBack_NoSkip(d, i) == d - i

RECURSIVE WalkBack(_, _)
WalkBack(d, i) ==
  IF i >= 9 THEN d - 9
  ELSE IF Weekday(d - i) < 5 THEN d - i
  ELSE WalkBack(d, i + 1)

GetLastTradeDate_NoUsRule(market, date_str) ==
  Strftime(WalkBack(Strptime(ReplaceDash(date_str)), 1))

GetLastTradeDate(market, date_str) ==
  LET date == Strptime(ReplaceDash(date_str))
      prev_date == IF market = "us"
                   THEN (IF Weekday(date) = 0 THEN date - 3 ELSE date - 1)
                   ELSE WalkBack(date, 1)
  IN Strftime(prev_date)


(* ------------------------ tables and snapshots -------------------------- *)
Row(name, inflow) == [sector_name |-> name, main_inflow |-> inflow]

\* what the provider of a market serves on a day (sector flows differ by
\* market and change from one day to the next)
Bias(market) == CASE market = "a_share" -> 0 [] market = "us" -> 1 [] OTHER -> 2

FetchTables(market, d) ==
  IF d % 2 = 0
  THEN { <<Row("A", 30 + Bias(market)), Row("B", 20), Row("C", 10)>> }
  ELSE { <<Row("C", 5), Row("D", 40 + Bias(market)), Row("A", 25)>> }

LegacyTable == <<Row("B", 7), Row("A", 3)>>

NaValues == {"", "NA", "N/A", "NaN", "nan", "null", "None"}

\* DataFrame.to_csv(index=False): one text line per row, cells written as text
ToCsv(rows) == [i \in 1..Len(rows) |-> rows[i]]

\* pd.read_csv: a cell in the default NA set is parsed as a missing value
ParseCell(s) == IF s \in NaValues THEN "NaN" ELSE s

ReadCsv(lines) ==
  [i \in 1..Len(lines) |-> [lines[i] EXCEPT !.sector_name = ParseCell(@)]]

MarketFilePath_NoPrefix(market, date_str) ==
  <<"", "", "sector_flow_", ReplaceDash(date_str).n>>

\* file name of a market snapshot: f"{market}_sector_flow_{YYYYMMDD}.csv"
MarketFilePath(market, date_str) ==
  <<market, "_", "sector_flow_", ReplaceDash(date_str).n>>

\* file name of a legacy single-market snapshot: f"sector_flow_{YYYYMMDD}.csv"
LegacyFilePath(date_str) ==
  <<"", "", "sector_flow_", ReplaceDash(date_str).n>>

(* ------------------------- ranking and rotation ------------------------- *)
RECURSIVE InsertDesc(_, _)
InsertDesc(x, s) ==
  IF s = <<>> THEN <<x>>
  ELSE IF Head(s).main_inflow >= x.main_inflow
       THEN <<Head(s)>> \o InsertDesc(x, Tail(s))
       ELSE <<x>> \o s

RECURSIVE SortValuesDesc(_)
SortValuesDesc(s) ==
  IF s = <<>> THEN <<>>
  ELSE InsertDesc(s[Len(s)], SortValuesDesc(SubSeq(s, 1, Len(s) - 1)))

HeadN(s, n) == SubSeq(s, 1, IF Len(s) < n THEN Len(s) ELSE n)

RankByInflow(df, top_n) ==
  IF df = None \/ df.rows = <<>> THEN Df(<<>>)
  ELSE LET df_sorted == SortValuesDesc(df.rows)
           ranked == [i \in 1..Len(df_sorted) |->
                        [sector_name |-> df_sorted[i].sector_name,
                         main_inflow |-> df_sorted[i].main_inflow,
                         rank |-> i]]
       IN Df(HeadN(ranked, top_n))

TopN == 10

\* sort_values(..., ascending=False) with the default kind='quicksort', which
\* is not a stable sort: the rows come out in descending order of the key and
\* rows with equal keys in any order
SortValuesOutcomes(s) ==
  LET n == Len(s)
      perms == {p \in [1..n -> 1..n] : \A i, j \in 1..n : i # j => p[i] # p[j]}
  IN {[i \in 1..n |-> s[p[i]]] : p \in
        {q \in perms : \A i \in 1..n, j \in 1..n :
                         i < j => s[q[i]].main_inflow >= s[q[j]].main_inflow}}

WithRank_ZeroBased(df_sorted) ==
  [i \in 1..Len(df_sorted) |->
     [sector_name |-> df_sorted[i].sector_name,
      main_inflow |-> df_sorted[i].main_inflow,
      rank |-> i - 1]]

\* df_sorted['rank'] = range(1, len(df_sorted) + 1)
WithRank(df_sorted) ==
  [i \in 1..Len(df_sorted) |->
     [sector_name |-> df_sorted[i].sector_name,
      main_inflow |-> df_sorted[i].main_inflow,
      rank |-> i]]

RankByInflowOutcomes_NoEmptyCheck(df, top_n) ==
  IF df = None THEN {[kind |-> "raised"]}
  ELSE {Df(HeadN(WithRank(df_sorted), top_n)) :
          df_sorted \in SortValuesOutcomes(df.rows)}

\* every table rank_by_inflow(df, top_n) can return
RankByInflowOutcomes(df, top_n) ==
  IF df = None \/ df.rows = <<>> THEN {Df(<<>>)}
  ELSE {Df(HeadN(WithRank(df_sorted), top_n)) :
          df_sorted \in SortValuesOutcomes(df.rows)}

RECURSIVE YesterdayRanks(_, _)
YesterdayRanks(rows, sector) ==
  IF rows = <<>> THEN Str(">10")
  ELSE IF rows[Len(rows)].sector_name = sector
       THEN IntVal(rows[Len(rows)].rank)
       ELSE YesterdayRanks(SubSeq(rows, 1, Len(rows) - 1), sector)

DetectRotation_AllToday(today_df, yesterday_df) ==
  IF today_df = None \/ today_df.rows = <<>> THEN {}
  ELSE {[sector_name |-> today_df.rows[i].sector_name,
         yesterday_rank |-> Str(">10"),
         signal_type |-> "new in TOP10"] : i \in 1..Len(HeadN(today_df.rows, TopN))}

DetectRotation(today_df, yesterday_df) ==
  IF today_df = None \/ today_df.rows = <<>> THEN {}
  ELSE IF yesterday_df = None \/ yesterday_df.rows = <<>> THEN {}
  ELSE LET today_sectors ==
             {today_df.rows[i].sector_name : i \in 1..Len(HeadN(today_df.rows, TopN))}
           yesterday_sectors ==
             {yesterday_df.rows[i].sector_name :
                i \in {k \in 1..Len(yesterday_df.rows) : k - 1 < TopN}}
           new_sectors == today_sectors \ yesterday_sectors
       IN {[sector_name |-> s,
            yesterday_rank |-> YesterdayRanks(yesterday_df.rows, s),
            signal_type |-> "new in TOP10"] : s \in new_sectors}


(* ------------------------------- state ---------------------------------- *)
VARIABLES
  schedules,    \* self.schedules: market key -> MarketSchedule
  fetchers,     \* self._fetchers: markets with a cached fetcher
  chart_generator, \* whether a chart collaborator was passed to __init__
  jobstore,     \* cron jobs registered with self.scheduler by start()
  started,      \* self.scheduler is running
  clock,        \* [day, slot]: the wall clock, slot indexes Slots
  due,          \* registered triggers whose fire time is the current instant
  pc,           \* position of every run_single_market invocation
  loc,          \* its local variables (today, today_df, result, ...)
  batch,        \* the run_all_markets / run_once invocation
  store,        \* the data directory: file path -> file content
  written,      \* per (market, date): what that market's jobs last saved
  last,         \* outcome of the last finished run_single_market invocation
  upd,          \* outcome of the last update_schedule call
  nRuns, nUpdates, nBatches, nFaults,
  call          \* a direct call of one analyzer / calendar / snapshot function

vars == <<schedules, fetchers, chart_generator, jobstore, started, clock, due,
          pc, loc, batch, store, written, last, upd, nRuns, nUpdates, nBatches,
          nFaults, call>>

schedVars == <<schedules, jobstore, started, upd, nUpdates>>
confVars == <<schedules, started, upd, nUpdates>>
timeVars == <<clock, due>>
dataVars == <<store, written>>

\* a collaborator call raises (the model injects at most MaxFaults of them)
Fault == nFaults < MaxFaults /\ nFaults' = nFaults + 1
NoFault == UNCHANGED nFaults

JobIds == ({"cron", "batch"} \X Markets) \cup ({"adhoc"} \X AdhocMarkets)

\* the ways the scheduler is constructed: the schedules passed to __init__
\* (all markets enabled, or hk disabled) and the optional chart collaborator
Constructions ==
  { [enabled |-> Markets, chart_generator |-> TRUE],
    [enabled |-> Markets \ {"hk"}, chart_generator |-> TRUE],
    [enabled |-> Markets, chart_generator |-> FALSE] }

NoCall == [op |-> "none"]

IdleBatch == [pc |-> "idle", entry |-> "none", idx |-> 0,
              results |-> <<>>, ran |-> {}, ret |-> None, report |-> None]

Init ==
  /\ \E c \in Constructions :
       /\ schedules = [m \in Markets |->
                         [DEFAULT_SCHEDULES[m] EXCEPT !.enabled = m \in c.enabled]]
       /\ chart_generator = c.chart_generator
  /\ fetchers = {}
  /\ jobstore = [m \in Markets |-> None]
  /\ started = FALSE
  /\ clock = [day |-> 0, slot |-> 1]
  /\ due = {}
  /\ pc = [j \in JobIds |-> "idle"]
  /\ loc = [j \in JobIds |-> None]
  /\ batch = IdleBatch
  /\ store = (LegacyFilePath(Strftime(0)) :> ToCsv(LegacyTable))
  /\ written = [m \in Markets |-> [d \in {} |-> None]]
  /\ last = None
  /\ upd = "none"
  /\ nRuns = 0
  /\ nUpdates = 0
  /\ nBatches = 0
  /\ nFaults = 0
  /\ call = NoCall

(* -------------------- the event loop (cooperative) ---------------------- *)
Running(j) == pc[j] # "idle"

LoopFree_Awaiting == TRUE

\* run_single_market never awaits, and run_all_markets awaits nothing else:
\* a callback of the loop starts only when no job and no batch loop is mid-run
LoopFree == (\A j \in JobIds : ~Running(j)) /\ batch.pc = "idle" /\ last = None

(* ------------------------- start / update_schedule ---------------------- *)
ValidTime(t) == t \in {Slots[i] : i \in 1..Len(Slots)}

CronJob(schedule) == [kind |-> "job",
                      time |-> schedule.schedule_time,
                      day_of_week |-> schedule.days_of_week,
                      args |-> schedule.market]

\* what start() leaves in the job store for one market
AddJob(schedule, old) ==
  IF ~schedule.enabled THEN old
  ELSE IF ~ValidTime(schedule.schedule_time) THEN old
  ELSE CronJob(schedule)

Start ==
  /\ LoopFree
  /\ jobstore' = [m \in Markets |-> AddJob(schedules[m], jobstore[m])]
  /\ started' = TRUE
  /\ UNCHANGED <<schedules, upd, nUpdates, fetchers, chart_generator, clock, due,
                 pc, loc, batch, store, written, last, nRuns, nBatches, nFaults>>
  /\ UNCHANGED call

UpdatedSchedule_TruthyEnabled(schedule, schedule_time, enabled) ==
  [schedule EXCEPT
     !.schedule_time = IF schedule_time # "" THEN schedule_time ELSE @,
     !.enabled = IF enabled = "True" THEN TRUE ELSE @]

\* update_schedule's effect on self.schedules for a known market
UpdatedSchedule(schedule, schedule_time, enabled) ==
  [schedule EXCEPT
     !.schedule_time = IF schedule_time # "" THEN schedule_time ELSE @,
     !.enabled = IF enabled # "None" THEN (enabled = "True") ELSE @]

UpdateSchedule(market, schedule_time, enabled) ==
  /\ LoopFree
  /\ nUpdates < MaxUpdates
  /\ nUpdates' = nUpdates + 1
  /\ IF market \notin DOMAIN schedules
     THEN /\ upd' = "ValueError"
          /\ UNCHANGED schedules
     ELSE /\ upd' = "ok"
          /\ schedules' = [schedules EXCEPT
                             ![market] = UpdatedSchedule(@, schedule_time, enabled)]
  /\ UNCHANGED <<jobstore, started, fetchers, chart_generator, clock, due,
                 pc, loc, batch, store, written, last, nRuns, nBatches, nFaults>>
  /\ UNCHANGED call


(* --------------------------- run_single_market -------------------------- *)
NewResult(market) ==
  [market |-> market, success |-> FALSE, top10 |-> None, full_data |-> None,
   rotation_signals |-> {}, error |-> None, chart_files |-> <<>>]

NewLocals(market, day) ==
  [kind |-> "locals", today |-> Strftime(day), result |-> NewResult(market),
   today_df |-> None, top10_df |-> None, yesterday_df |-> None,
   loaded |-> None, hung |-> FALSE]

\* start() registers a CronTrigger job: a run leaves it in the job store,
\* armed for its next occurrence
Rearm_OneShot(job) == None

Rearm(job) == job

\* how a finished invocation hands its outcome to whoever awaited it
Deliver(j, outcome, fault) ==
  /\ pc' = [pc EXCEPT ![j] = "idle"]
  /\ jobstore' = IF j[1] = "cron" THEN [jobstore EXCEPT ![j[2]] = Rearm(@)]
                 ELSE jobstore
  /\ loc' = [loc EXCEPT ![j] = None]
  /\ last' = [kind |-> "outcome", job |-> j, status |-> outcome.status,
              result |-> outcome.result, fault |-> fault]
  /\ batch' = IF j[1] # "batch" THEN batch
              ELSE IF outcome.status = "returned"
                   THEN [batch EXCEPT !.results = (j[2] :> outcome.result) @@ @,
                                      !.idx = @ + 1]
                   ELSE [batch EXCEPT !.pc = "done",
                                      !.ret = [kind |-> "raised"]]

Return(j, result, fault) ==
  Deliver(j, [status |-> "returned", result |-> result], fault)

Except_Reraise(result, e) ==
  [status |-> "raised", result |-> result]

\* the `except Exception as e` clause: what a raising step turns into
Except(result, e) ==
  [status |-> "returned", result |-> [result EXCEPT !.error = Str(e)]]

InTry_SaveOutside(step) ==
  step \in {"get_fetcher", "fetch", "rank", "load", "detect", "charts"}

\* the steps inside the try block of run_single_market
InTry(step) ==
  step \in {"get_fetcher", "fetch", "rank", "save", "load", "detect", "charts"}

Raise(j, e) ==
  IF InTry(pc[j])
  THEN Deliver(j, Except(loc[j].result, e), e)
  ELSE Deliver(j, [status |-> "raised", result |-> loc[j].result], e)

Advance(j, step, locals) ==
  /\ pc' = [pc EXCEPT ![j] = step]
  /\ loc' = [loc EXCEPT ![j] = locals]
  /\ UNCHANGED <<last, batch, jobstore>>

JobStart(j) ==
  /\ pc' = [pc EXCEPT ![j] = "get_fetcher"]
  /\ loc' = [loc EXCEPT ![j] = NewLocals(j[2], clock.day)]

\* 1. fetcher = self._get_fetcher(market)
GetFetcher(j) ==
  /\ pc[j] = "get_fetcher"
  /\ IF j[2] \in fetchers
     THEN /\ Advance(j, "fetch", loc[j])
          /\ UNCHANGED <<fetchers, nFaults>>
     ELSE \/ /\ j[2] \in Markets
             /\ fetchers' = fetchers \cup {j[2]}
             /\ Advance(j, "fetch", loc[j])
             /\ NoFault
          \/ /\ j[2] \in Markets => Fault
             /\ j[2] \notin Markets => NoFault
             /\ Raise(j, "create failed")
             /\ UNCHANGED fetchers
  /\ UNCHANGED <<confVars, timeVars, dataVars, chart_generator, nRuns, nBatches>>
  /\ UNCHANGED call

FetchOutcomes == {"raise", "hang", "None", "empty", "data"}

\* 2. today_df = fetcher.get_sector_data(today)
Fetch(j) ==
  /\ pc[j] = "fetch"
  /\ ~loc[j].hung
  /\ \E o \in FetchOutcomes :
       CASE o = "raise" -> Fault /\ Raise(j, "fetch failed")
         [] o = "hang"  -> /\ NoFault
                           /\ Advance(j, "fetch", [loc[j] EXCEPT !.hung = TRUE])
         [] o \in {"None", "empty"} ->
              /\ NoFault
              /\ Return(j, [loc[j].result EXCEPT !.error = Str("empty data")],
                        "empty data")
         [] o = "data"  ->
              /\ NoFault
              /\ \E t \in FetchTables(j[2], clock.day) :
                   Advance(j, "rank", [loc[j] EXCEPT !.today_df = Df(t),
                                                     !.result.full_data = Df(t)])
  /\ UNCHANGED <<confVars, timeVars, dataVars, fetchers, chart_generator,
                 nRuns, nBatches>>
  /\ UNCHANGED call

\* 3. top10_df = self.analyzer.rank_by_inflow(today_df, top_n=10); summary
Rank(j) ==
  /\ pc[j] = "rank"
  /\ LET top10_df == RankByInflow(loc[j].today_df, 10)
     IN \/ /\ NoFault
           /\ Advance(j, "save", [loc[j] EXCEPT !.top10_df = top10_df,
                                                !.result.top10 = top10_df])
        \/ Fault /\ Raise(j, "rank failed")
  /\ UNCHANGED <<confVars, timeVars, dataVars, fetchers, chart_generator,
                 nRuns, nBatches>>
  /\ UNCHANGED call

WriteSnapshot_Append(st, df, date_str, market) ==
  LET file_path == MarketFilePath(market, date_str)
  IN (file_path :> (IF file_path \in DOMAIN st THEN st[file_path] ELSE <<>>)
                     \o ToCsv(df.rows)) @@ st

\* _save_market_snapshot: df.to_csv(file_path) creates or replaces the file
WriteSnapshot(st, df, date_str, market) ==
  (MarketFilePath(market, date_str) :> ToCsv(df.rows)) @@ st

\* _load_market_snapshot: None when the file does not exist, else read_csv
ReadSnapshot(st, date_str, market) ==
  LET file_path == MarketFilePath(market, date_str)
  IN IF file_path \notin DOMAIN st THEN None ELSE Df(ReadCsv(st[file_path]))

\* 4. self._save_market_snapshot(today_df, today, market)
SaveMarketSnapshot(j) ==
  /\ pc[j] = "save"
  /\ \/ /\ NoFault
        /\ store' = WriteSnapshot(store, loc[j].today_df, loc[j].today, j[2])
        /\ written' = [written EXCEPT ![j[2]] =
                         (loc[j].today.n :> ToCsv(loc[j].today_df.rows)) @@ @]
        /\ Advance(j, "load", loc[j])
     \/ /\ Fault
        /\ Raise(j, "save failed")
        /\ UNCHANGED dataVars
  /\ UNCHANGED <<confVars, timeVars, fetchers, chart_generator, nRuns, nBatches>>
  /\ UNCHANGED call

\* 5a. last_trade_date = ...; yesterday_df = self._load_market_snapshot(...)
LoadMarketSnapshot(j) ==
  /\ pc[j] = "load"
  /\ LET last_trade_date == GetLastTradeDate(j[2], loc[j].today)
         file_path == MarketFilePath(j[2], last_trade_date)
     IN IF file_path \notin DOMAIN store
        THEN /\ NoFault
             /\ Advance(j, "detect", [loc[j] EXCEPT !.yesterday_df = None,
                                                    !.loaded = last_trade_date])
        ELSE \/ /\ NoFault
                /\ Advance(j, "detect",
                           [loc[j] EXCEPT !.yesterday_df =
                                            ReadSnapshot(store, last_trade_date, j[2]),
                                          !.loaded = last_trade_date])
             \/ Fault /\ Raise(j, "load failed")
  /\ UNCHANGED <<confVars, timeVars, dataVars, fetchers, chart_generator,
                 nRuns, nBatches>>
  /\ UNCHANGED call

\* rank_by_inflow(yesterday_df, top_n=20)
PriorTopN == 20

HasPrior_Always(yesterday_df) == TRUE

\* `if yesterday_df is not None`
HasPrior(yesterday_df) == yesterday_df # None

\* rank yesterday's snapshot to its top 20 and diff today's top 10 against it
RotationStep(top10_df, yesterday_df) ==
  LET yesterday_top10 == RankByInflow(yesterday_df, PriorTopN)
  IN DetectRotation(top10_df, yesterday_top10)

\* 5b. rotation detection, skipped when the prior snapshot is missing
Detect(j) ==
  /\ pc[j] = "detect"
  /\ IF HasPrior(loc[j].yesterday_df)
     THEN \/ /\ NoFault
             /\ LET rotation_signals ==
                      RotationStep(loc[j].top10_df, loc[j].yesterday_df)
                IN Advance(j, "charts",
                           [loc[j] EXCEPT !.result.rotation_signals = rotation_signals])
          \/ Fault /\ Raise(j, "detect failed")
     ELSE NoFault /\ Advance(j, "charts", loc[j])
  /\ UNCHANGED <<confVars, timeVars, dataVars, fetchers, chart_generator,
                 nRuns, nBatches>>
  /\ UNCHANGED call

\* _generate_market_charts: the files collected before rendering call failAt
\* raised (0: no call raised); the exception is swallowed there
GenerateMarketCharts(failAt) ==
  CASE failAt = 1 -> <<>>
    [] failAt = 2 -> <<"pie_inflow", "pie_outflow">>
    [] failAt = 3 -> <<"pie_inflow", "pie_outflow", "summary">>
    [] OTHER -> <<"pie_inflow", "pie_outflow", "summary", "trend">>

\* 6. charts (if a chart generator is configured), then success = True
Charts(j) ==
  /\ pc[j] = "charts"
  /\ IF chart_generator
     THEN \E failAt \in 0..3 :
            /\ IF failAt = 0 THEN NoFault ELSE Fault
            /\ Return(j, [loc[j].result EXCEPT
                            !.chart_files = GenerateMarketCharts(failAt),
                            !.success = TRUE],
                      IF failAt = 0 THEN "none" ELSE "charts failed")
     ELSE NoFault /\ Return(j, [loc[j].result EXCEPT !.success = TRUE], "none")
  /\ UNCHANGED <<confVars, timeVars, dataVars, fetchers, chart_generator,
                 nRuns, nBatches>>
  /\ UNCHANGED call

(* ------------------------ clock and cron triggers ----------------------- *)
NextInstant(c) ==
  IF c.slot < Len(Slots) THEN [c EXCEPT !.slot = @ + 1]
  ELSE [day |-> c.day + 1, slot |-> 1]

\* CronTrigger(hour, minute, day_of_week): does the job fire at instant c
Fires(job, c) ==
  /\ job # None
  /\ job.time = Slots[c.slot]
  /\ DayOfWeekMatches(job.day_of_week, c.day)

Tick ==
  /\ ~(clock.day = MaxDay /\ clock.slot = Len(Slots))
  /\ clock' = NextInstant(clock)
  /\ due' = IF started THEN {m \in Markets : Fires(jobstore[m], clock')} ELSE {}
  /\ UNCHANGED <<schedVars, fetchers, chart_generator, pc, loc, batch, store,
                 written, last, nRuns, nBatches, nFaults>>
  /\ UNCHANGED call

\* the scheduler runs the registered coroutine: run_single_market(*args)
CronCanFire(m) ==
  /\ m \in due
  /\ LoopFree
  /\ ~Running(<<"cron", jobstore[m].args>>)

CronFire(m) ==
  /\ CronCanFire(m)
  /\ nRuns < MaxRuns
  /\ nRuns' = nRuns + 1
  /\ due' = due \ {m}
  /\ JobStart(<<"cron", jobstore[m].args>>)
  /\ UNCHANGED <<schedVars, clock, fetchers, chart_generator, batch, store,
                 written, last, nBatches, nFaults>>
  /\ UNCHANGED call

\* an ad-hoc `await scheduler.run_single_market(market)` (run_multi_market.py)
AdhocRun(m) ==
  /\ LoopFree
  /\ ~Running(<<"adhoc", m>>)
  /\ nRuns < MaxRuns
  /\ nRuns' = nRuns + 1
  /\ JobStart(<<"adhoc", m>>)
  /\ UNCHANGED <<schedVars, timeVars, fetchers, chart_generator, batch, store,
                 written, last, nBatches, nFaults>>
  /\ UNCHANGED call


(* ---------------------- run_all_markets / run_once ---------------------- *)
ShouldRun_Always(schedule) == TRUE

ShouldRun(schedule) == schedule.enabled

SkipMarker_Success(schedule) ==
  [market |-> schedule.market, success |-> TRUE, skipped |-> TRUE]

SkipMarker(schedule) ==
  [market |-> schedule.market, success |-> FALSE, skipped |-> TRUE]

AnySuccess(results) == \E k \in DOMAIN results : results[k].success

BatchJobRunning == \E m \in Markets : Running(<<"batch", m>>)

\* entry is "run_once" (which calls run_all_markets) or "run_all_markets"
RunBatch(entry) ==
  /\ LoopFree
  /\ nBatches < MaxBatches
  /\ nRuns + Cardinality(Markets) <= MaxRuns
  /\ nBatches' = nBatches + 1
  /\ nRuns' = nRuns + Cardinality(Markets)
  /\ batch' = [pc |-> "loop", entry |-> entry, idx |-> 1,
               results |-> <<>>, ran |-> {}, ret |-> None, report |-> None]
  /\ UNCHANGED <<schedVars, timeVars, dataVars, fetchers, chart_generator,
                 pc, loc, last, nFaults>>
  /\ UNCHANGED call

\* one iteration of `for market_key, schedule in self.schedules.items()`
BatchIterate ==
  /\ batch.pc = "loop"
  /\ ~BatchJobRunning
  /\ last = None
  /\ batch.idx <= Len(MarketOrder)
  /\ LET market_key == MarketOrder[batch.idx]
         schedule == schedules[market_key]
     IN IF ShouldRun(schedule)
        THEN /\ JobStart(<<"batch", schedule.market>>)
             /\ batch' = [batch EXCEPT !.ran = @ \cup {market_key}]
        ELSE /\ batch' = [batch EXCEPT
                            !.results = (market_key :> SkipMarker(schedule)) @@ @,
                            !.idx = @ + 1]
             /\ UNCHANGED <<pc, loc>>
  /\ UNCHANGED <<schedVars, timeVars, dataVars, fetchers, chart_generator,
                 last, nRuns, nBatches, nFaults>>
  /\ UNCHANGED call

\* run_all_markets returns its results; run_once then computes any_success,
\* awaits _generate_multi_market_report when it is true (the reporter, the
\* notifier or the Notion writer may raise there) and returns any_success.
\* Every job of the batch has returned before the report is awaited.
RunOnceReturn(results, published) ==
  IF ~AnySuccess(results) THEN [kind |-> "returned", value |-> FALSE]
  ELSE IF published THEN [kind |-> "returned", value |-> TRUE]
  ELSE [kind |-> "raised"]

\* what run_once hands to reporter.generate_multi_markdown: the results of the
\* cycle when any market succeeded, nothing otherwise
Reported(results) == IF AnySuccess(results) THEN results ELSE None

BatchReturn ==
  /\ batch.pc = "loop"
  /\ ~BatchJobRunning
  /\ last = None
  /\ batch.idx > Len(MarketOrder)
  /\ \E published \in BOOLEAN :
       batch' = [batch EXCEPT
                   !.pc = "done",
                   !.ret = IF batch.entry = "run_all_markets"
                           THEN [kind |-> "results"]
                           ELSE RunOnceReturn(batch.results, published),
                   !.report = IF batch.entry = "run_all_markets"
                              THEN None
                              ELSE Reported(batch.results)]
  /\ UNCHANGED <<schedVars, timeVars, dataVars, fetchers, chart_generator,
                 pc, loc, last, nRuns, nBatches, nFaults>>
  /\ UNCHANGED call

\* the caller that awaited a job (APScheduler's job runner, run_market, the
\* batch loop) resumes with the outcome
Resume ==
  /\ last # None
  /\ last' = None
  /\ UNCHANGED <<schedVars, timeVars, dataVars, fetchers, chart_generator,
                 pc, loc, batch, nRuns, nBatches, nFaults>>
  /\ UNCHANGED call

\* the caller of run_once / run_all_markets resumes with its return value
BatchResume ==
  /\ batch.pc = "done"
  /\ batch' = IdleBatch
  /\ UNCHANGED <<schedVars, timeVars, dataVars, fetchers, chart_generator,
                 pc, loc, last, nRuns, nBatches, nFaults>>
  /\ UNCHANGED call

(* ---------------------------- specification ----------------------------- *)
Next ==
  \/ Start
  \/ \E m \in UpdateMarkets, t \in UpdateTimes, e \in UpdateEnabled :
       UpdateSchedule(m, t, e)
  \/ Tick
  \/ \E m \in Markets : CronFire(m)
  \/ \E m \in AdhocMarkets : AdhocRun(m)
  \/ \E entry \in {"run_once", "run_all_markets"} : RunBatch(entry)
  \/ BatchIterate
  \/ BatchReturn
  \/ BatchResume
  \/ Resume
  \/ \E j \in JobIds : GetFetcher(j)
  \/ \E j \in JobIds : Fetch(j)
  \/ \E j \in JobIds : Rank(j)
  \/ \E j \in JobIds : SaveMarketSnapshot(j)
  \/ \E j \in JobIds : LoadMarketSnapshot(j)
  \/ \E j \in JobIds : Detect(j)
  \/ \E j \in JobIds : Charts(j)

Spec == Init /\ [][Next]_vars

\* the event loop keeps running its callbacks while any is ready
SpecLive == Spec /\ WF_vars(Next)

(* ------------- direct calls of the analyzer's pure functions ------------ *)
\* the scheduler's own state, which a direct call leaves alone
progVars == <<schedules, fetchers, chart_generator, jobstore, started, clock,
              due, pc, loc, batch, store, written, last, upd, nRuns, nUpdates,
              nBatches, nFaults>>

\* input tables of the calls: a universe of sector names, and snapshots of up
\* to MaxRows rows whose names are the universe shifted by k
MaxRows == 22
MaxShift == 23

SectorNames ==
  <<"S01", "S02", "S03", "S04", "S05", "S06", "S07", "S08", "S09", "S10",
    "S11", "S12", "S13", "S14", "S15", "S16", "S17", "S18", "S19", "S20",
    "S21", "S22", "S23", "S24", "S25">>

Snapshot(k, n) ==
  [i \in 1..n |->
     Row(SectorNames[((i + k - 1) % Len(SectorNames)) + 1], (i * 5) % 29)]

TodaySizes == {3, TopN, MaxRows}
YesterdaySizes == {1, TopN - 1, TopN, TopN + 1, PriorTopN, PriorTopN + 1, MaxRows}

TodayRanked == {RankByInflow(Df(Snapshot(0, n)), TopN) : n \in TodaySizes}
YesterdaySnapshots ==
  {Df(Snapshot(k, n)) : k \in 0..MaxShift, n \in YesterdaySizes}

\* SectorAnalyzer.detect_rotation(today_df, yesterday_df) called on ranked
\* tables, on empty tables and on None
CallDetectRotation ==
  /\ call = NoCall
  /\ \E today_df \in TodayRanked \cup {None, Df(<<>>)},
        snap \in YesterdaySnapshots \cup {None, Df(<<>>)},
        top_n \in {PriorTopN, MaxRows} :
       LET yesterday_df == IF snap = None THEN None ELSE RankByInflow(snap, top_n)
       IN call' = [op |-> "detect_rotation", today_df |-> today_df,
                   yesterday_df |-> yesterday_df,
                   ret |-> DetectRotation(today_df, yesterday_df)]
  /\ UNCHANGED progVars

\* step 5 of the job on a prior snapshot that was found: lines 152-155
CallRotationStep ==
  /\ call = NoCall
  /\ \E top10_df \in TodayRanked, yesterday_df \in YesterdaySnapshots :
       call' = [op |-> "rotation_step", top10_df |-> top10_df,
                yesterday_df |-> yesterday_df,
                ret |-> RotationStep(top10_df, yesterday_df)]
  /\ UNCHANGED progVars

\* small tables with repeated inflow values, the empty table and None
MaxLen == 3
RowNames == <<"A", "B", "C", "D", "E">>
Inflows == {10, 20, 30}

SmallTables ==
  UNION {{[i \in 1..n |-> Row(RowNames[i], f[i])] : f \in [1..n -> Inflows]} :
           n \in 0..MaxLen}

TopNs == {0, 1, 2, TopN}

\* SectorAnalyzer.rank_by_inflow(df, top_n)
CallRankByInflow ==
  /\ call = NoCall
  /\ \E df \in {Df(t) : t \in SmallTables} \cup {None}, top_n \in TopNs :
       \E ret \in RankByInflowOutcomes(df, top_n) :
         call' = [op |-> "rank_by_inflow", df |-> df, top_n |-> top_n, ret |-> ret]
  /\ UNCHANGED progVars

\* tables to save: sector names that read_csv keeps and names it takes for
\* missing values
SnapshotNames == {"A", "B", "NA", "None"}
SnapshotTables ==
  UNION {{[i \in 1..n |-> Row(f[i], 10 * i)] : f \in [1..n -> SnapshotNames]} :
           n \in 1..2}

\* a date in either accepted form: YYYY-MM-DD or YYYYMMDD
DateForms(d) == {Strftime(d), ReplaceDash(Strftime(d))}

\* _save_market_snapshot(T, date, market), then _load_market_snapshot of the
\* same key
CallSaveLoad ==
  /\ call = NoCall
  /\ \E t \in SnapshotTables, market \in Markets, d \in 0..MaxDay :
       \E save_date \in DateForms(d), load_date \in DateForms(d) :
         LET st == WriteSnapshot(store, Df(t), save_date, market)
         IN call' = [op |-> "save_load", market |-> market, df |-> Df(t),
                     save_date |-> save_date, load_date |-> load_date,
                     ret |-> ReadSnapshot(st, load_date, market)]
  /\ UNCHANGED progVars

\* two saves of the same key (two runs of a market's job on one date), then a
\* load of it
CallSaveTwiceLoad ==
  /\ call = NoCall
  /\ \E first \in SnapshotTables, second \in SnapshotTables, market \in Markets :
       \E date1 \in DateForms(0), date2 \in DateForms(0) :
         LET st1 == WriteSnapshot(store, Df(first), date1, market)
             st2 == WriteSnapshot(st1, Df(second), date2, market)
         IN call' = [op |-> "save_twice_load", market |-> market,
                     first |-> Df(first), second |-> Df(second),
                     before |-> DOMAIN store, after |-> st2,
                     ret |-> ReadSnapshot(st2, date2, market)]
  /\ UNCHANGED progVars

\* reference dates of the calendar calls: two weeks from day 0
MaxRefDay == 13

\* _get_last_trade_date(market, date_str)
CallGetLastTradeDate ==
  /\ call = NoCall
  /\ \E market \in Markets, d \in 0..MaxRefDay :
       \E date_str \in DateForms(d) :
         call' = [op |-> "get_last_trade_date", market |-> market,
                  date_str |-> date_str,
                  ret |-> GetLastTradeDate(market, date_str)]
  /\ UNCHANGED progVars

\* DataFetcherFactory.create(market): a new fetcher object, or an exception
\* (ValueError for an unsupported market, the fetcher constructor's error)
CreateOutcomes(market) ==
  IF market \in Markets THEN {"new", "raise"} ELSE {"raise"}

GetFetcherResult_NoCache(cache, objects, market, outcome) ==
  IF outcome = "raise"
  THEN [cache |-> cache, objects |-> objects, created |-> TRUE, ret |-> None]
  ELSE [cache |-> (market :> objects + 1) @@ cache, objects |-> objects + 1,
        created |-> TRUE, ret |-> IntVal(objects + 1)]

\* _get_fetcher(market) on the cache self._fetchers (market -> object id);
\* objects counts the fetcher objects built so far, created tells whether the
\* factory was called, ret is the object returned (None: the call raised)
GetFetcherResult(cache, objects, market, outcome) ==
  IF market \in DOMAIN cache
  THEN [cache |-> cache, objects |-> objects, created |-> FALSE,
        ret |-> IntVal(cache[market])]
  ELSE IF outcome = "raise"
       THEN [cache |-> cache, objects |-> objects, created |-> TRUE, ret |-> None]
       ELSE [cache |-> (market :> objects + 1) @@ cache, objects |-> objects + 1,
             created |-> TRUE, ret |-> IntVal(objects + 1)]

\* the _get_fetcher calls of a sequence of jobs on one scheduler
RECURSIVE GetFetcherTrace(_, _, _)
GetFetcherTrace(cache, objects, reqs) ==
  IF reqs = <<>> THEN <<>>
  ELSE LET r == GetFetcherResult(cache, objects, Head(reqs).market,
                                 Head(reqs).outcome)
       IN <<[market |-> Head(reqs).market, created |-> r.created, ret |-> r.ret]>>
            \o GetFetcherTrace(r.cache, r.objects, Tail(reqs))

MaxJobs == 3

FetcherRequests ==
  UNION {{[market |-> m, outcome |-> o] : o \in CreateOutcomes(m)} :
           m \in Markets \cup {UnknownMarket}}

CallGetFetcher ==
  /\ call = NoCall
  /\ \E n \in 1..MaxJobs : \E reqs \in [1..n -> FetcherRequests] :
       call' = [op |-> "get_fetcher", reqs |-> reqs,
                trace |-> GetFetcherTrace(<<>>, 0, reqs)]
  /\ UNCHANGED progVars

\* history tables of calculate_trend_strength: rows (sector_name, date,
\* main_inflow), the inflow in units of 1e8 or the missing value NaN
NaN == [kind |-> "NaN"]
Float(v) == [kind |-> "float", v |-> v]
TrendRow(name, date, inflow) ==
  [sector_name |-> name, date |-> date, main_inflow |-> inflow]

TrendNames == {"A", "B"}
TrendInflows == {NaN, Float(0 - 1), Float(2)}
TrendDays == {1, 2, 5}

TrendTables ==
  UNION {{[i \in 1..n |-> TrendRow(nm[i], i, f[i])] :
            nm \in [1..n -> TrendNames], f \in [1..n -> TrendInflows]} :
           n \in 0..MaxLen}

\* the neutral result returned with an explanatory error
NeutralTrend(error) ==
  [trend_score |-> 0, trend_direction |-> "neutral", avg_inflow |-> 0,
   consistency |-> 0, momentum |-> 0, error |-> Str(error)]

RECURSIVE InsertByDateDesc(_, _)
InsertByDateDesc(x, s) ==
  IF s = <<>> THEN <<x>>
  ELSE IF Head(s).date >= x.date
       THEN <<Head(s)>> \o InsertByDateDesc(x, Tail(s))
       ELSE <<x>> \o s

\* sector_df.sort_values('date', ascending=False)
RECURSIVE SortByDateDesc(_)
SortByDateDesc(s) ==
  IF s = <<>> THEN <<>>
  ELSE InsertByDateDesc(s[Len(s)], SortByDateDesc(SubSeq(s, 1, Len(s) - 1)))

RECURSIVE SumSeq(_)
SumSeq(s) == IF s = <<>> THEN 0 ELSE Head(s) + SumSeq(Tail(s))

Clamp(x, lo, hi) == IF x < lo THEN lo ELSE IF x > hi THEN hi ELSE x

\* SectorAnalyzer.calculate_trend_strength(df, sector_name, days).  Averages
\* and scores are exact fractions, held as numerators over 60 (trend_score,
\* avg_inflow, consistency and momentum of a computed result are in sixtieths)
CalculateTrendStrength(df, sector_name, days) ==
  IF df = None THEN NeutralTrend("'NoneType' object has no attribute 'columns'")
  ELSE
  LET sector_df == SelectSeq(df.rows, LAMBDA r : r.sector_name = sector_name)
  IN IF sector_df = <<>> THEN NeutralTrend("sector not found")
  ELSE
  LET recent_data == HeadN(SortByDateDesc(sector_df), days)
  IN IF recent_data = <<>> \/ Len(recent_data) < 2
     THEN NeutralTrend("not enough data")
  ELSE
  LET inflows == [i \in 1..Len(recent_data) |-> recent_data[i].main_inflow]
      valid == SelectSeq(inflows, LAMBDA x : x # NaN)
      inflows_list == [i \in 1..Len(valid) |-> valid[i].v]
  IN IF inflows_list = <<>> THEN NeutralTrend("no valid data")
  ELSE
  LET n == Len(inflows_list)
      avg_inflow == (60 * SumSeq(inflows_list)) \div n
      positive_days == Len(SelectSeq(inflows_list, LAMBDA x : x > 0))
      consistency == (60 * positive_days) \div n
      mid == n \div 2
      first_half == (60 * SumSeq(SubSeq(inflows_list, 1, mid))) \div mid
      second_half == (60 * SumSeq(SubSeq(inflows_list, mid + 1, n))) \div (n - mid)
      momentum == IF mid > 0
                  THEN (IF first_half # 0 THEN second_half - first_half ELSE 0)
                  ELSE 0
      avg_norm == Clamp(avg_inflow, 0 - 60, 60)
      consistency_score == (consistency - 30) * 2
      momentum_norm == Clamp(momentum, 0 - 60, 60)
      trend_score == Clamp(avg_norm * 40 + consistency_score * 30
                             + momentum_norm * 30, 0 - 6000, 6000)
      trend_direction == IF trend_score > 20 * 60 THEN "up"
                         ELSE IF trend_score < 0 - 20 * 60 THEN "down"
                         ELSE "neutral"
  IN [trend_score |-> trend_score, trend_direction |-> trend_direction,
      avg_inflow |-> avg_inflow, consistency |-> consistency,
      momentum |-> momentum, data_points |-> Len(inflows)]

CallCalculateTrendStrength ==
  /\ call = NoCall
  /\ \E df \in {Df(t) : t \in TrendTables} \cup {None}, days \in TrendDays :
       call' = [op |-> "calculate_trend_strength", df |-> df,
                sector_name |-> "A", days |-> days,
                ret |-> CalculateTrendStrength(df, "A", days)]
  /\ UNCHANGED progVars

\* MarketSchedule objects live on a heap (object id -> fields); a schedules
\* dict maps a market key to an object id.  The class attribute
\* DEFAULT_SCHEDULES holds one object per market, named here by its key.
DefaultHeap == [o \in Markets |-> DEFAULT_SCHEDULES[o]]
DefaultDict == [m \in Markets |-> m]

\* dict.copy(): a new dict holding the same object references
DictCopy(d) == [k \in DOMAIN d |-> d[k]]

\* __init__ without a schedules argument: self.DEFAULT_SCHEDULES.copy()
NewSchedules == DictCopy(DefaultDict)

\* the schedules seen through a dict
View(d, heap) == [k \in DOMAIN d |-> heap[d[k]]]

\* update_schedule on a scheduler whose dict is d: assigns the attributes of
\* the object d[market]
UpdateScheduleHeap(heap, d, market, schedule_time, enabled) ==
  IF market \notin DOMAIN d THEN heap
  ELSE [heap EXCEPT ![d[market]] = UpdatedSchedule(@, schedule_time, enabled)]

\* two schedulers built with the default schedules; update_schedule is called
\* on the first
CallUpdateScheduleShared ==
  /\ call = NoCall
  /\ \E m \in UpdateMarkets, t \in UpdateTimes, e \in UpdateEnabled :
       LET first == NewSchedules
           second == NewSchedules
           heap == UpdateScheduleHeap(DefaultHeap, first, m, t, e)
       IN call' = [op |-> "update_schedule_shared", market |-> m,
                   schedule_time |-> t, enabled |-> e,
                   first |-> View(first, heap),
                   second_before |-> View(second, DefaultHeap),
                   second |-> View(second, heap),
                   default_before |-> View(DefaultDict, DefaultHeap),
                   default |-> View(DefaultDict, heap)]
  /\ UNCHANGED progVars

NextFn ==
  \/ CallGetLastTradeDate
  \/ CallDetectRotation
  \/ CallRotationStep
  \/ CallRankByInflow
  \/ CallSaveLoad
  \/ CallSaveTwiceLoad
  \/ CallGetFetcher
  \/ CallCalculateTrendStrength
  \/ CallUpdateScheduleShared

SpecFn == Init /\ [][NextFn]_vars

(* ------------------------------- claims --------------------------------- *)
RunOnceDone == batch.pc = "done" /\ batch.entry = "run_once"
Finished == last # None
CronRunning(m) == Running(<<"cron", m>>)

\* C1: run_once returns true iff at least one market's job of the cycle
\* returned success=true, and false when every market failed or was skipped.
C1_RunOnceReturnsAnySuccess ==
  RunOnceDone =>
    batch.ret = [kind |-> "returned", value |-> AnySuccess(batch.results)]

\* C2 (as stated): run_single_market never raises, and a failure in any step,
\* chart generation included, gives success=false with the message in error.
C2_EveryFailureReported ==
  Finished =>
    /\ last.status = "returned"
    /\ last.fault # "none" =>
         (~last.result.success /\ last.result.error = Str(last.fault))

\* C2 (amended): run_single_market never raises; a failure in fetcher creation,
\* fetch, ranking, snapshot save, prior-snapshot load or rotation detection
\* gives success=false with the message in error, while a chart-generation
\* failure is swallowed: the job returns success=true with error null.
C2_NeverRaises ==
  Finished =>
    /\ last.status = "returned"
    /\ last.fault \notin {"none", "charts failed"} =>
         (~last.result.success /\ last.result.error = Str(last.fault))
    /\ last.fault = "charts failed" =>
         (last.result.success /\ last.result.error = None)

C2_Witness ==
  /\ Finished
  /\ last.fault = "charts failed"
  /\ last.result.rotation_signals # {}

\* C3: run_all_markets returns one entry for every configured market: the
\* job's result when the market is enabled, a marker with skipped=true and
\* success=false when it is disabled, whose job is not run; a failed job does
\* not keep the remaining markets from being run.
C3_RunAllMarketsCoversEveryMarket ==
  batch.pc = "done" =>
    /\ DOMAIN batch.results = Markets
    /\ \A m \in Markets :
         IF schedules[m].enabled
         THEN /\ m \in batch.ran
              /\ batch.results[m].market = m
              /\ "skipped" \notin DOMAIN batch.results[m]
              /\ "error" \in DOMAIN batch.results[m]
         ELSE /\ m \notin batch.ran
              /\ batch.results[m] = [market |-> m, success |-> FALSE, skipped |-> TRUE]

C3_Witness ==
  /\ batch.pc = "done"
  /\ ~schedules["hk"].enabled
  /\ ~batch.results["a_share"].success
  /\ batch.results["us"].success

\* C4: no recurring trigger starts the job of a market whose enabled flag is
\* currently false, whether it was disabled at construction or by
\* update_schedule.
C4_DisabledNeverTriggers ==
  \A m \in Markets : CronRunning(m) => schedules[m].enabled

\* C5: update_schedule takes effect on the next evaluation of the market's
\* schedule: at every instant, the triggers that fire are those of the current
\* time of day and enabled flag of each market.
C5_UpdateTakesEffect ==
  [][clock' # clock =>
       due' = {m \in Markets :
                 /\ started
                 /\ schedules[m].enabled
                 /\ schedules[m].schedule_time = Slots[clock'.slot]
                 /\ DayOfWeekMatches(schedules[m].days_of_week, clock'.day)}]_vars

\* C6: while one market's job is blocked in a fetch that does not return, a
\* due trigger of another market can still fire.
C6_HungFetchBlocksOnlyItsJob ==
  \A j \in JobIds, m \in Markets :
    (Running(j) /\ loc[j].hung /\ m # j[2] /\ m \in due) => CronCanFire(m)

C8_OneJobPerMarket ==
  \A m \in Markets \cup {UnknownMarket} :
    Cardinality({j \in JobIds : j[2] = m /\ Running(j)}) <= 1

C8_Witness ==
  \E m \in AdhocMarkets \cap Markets :
    /\ Running(<<"adhoc", m>>)
    /\ m \in due
    /\ ~CronRunning(m)

\* C9: a job of market m writes only the file of (m, today) and reads only the
\* file of (m, prior trading date): every market snapshot in the store is what
\* that market's own jobs last saved for that date, and the legacy snapshot is
\* never touched.
ExpectedPath(m, d) == <<m, "_", "sector_flow_", d>>
Dates == (0 - 9)..MaxDay

C9_DisjointKeys ==
  /\ \A m \in Markets, d \in Dates :
       IF d \in DOMAIN written[m]
       THEN /\ ExpectedPath(m, d) \in DOMAIN store
            /\ store[ExpectedPath(m, d)] = written[m][d]
       ELSE ExpectedPath(m, d) \notin DOMAIN store
  /\ DOMAIN store \subseteq
       {ExpectedPath(m, d) : m \in Markets, d \in Dates}
         \cup {<<"", "", "sector_flow_", 0>>}
  /\ store[<<"", "", "sector_flow_", 0>>] = ToCsv(LegacyTable)
  /\ \A j \in JobIds :
       pc[j] \in {"detect", "charts"} =>
         /\ loc[j].loaded = GetLastTradeDate(j[2], loc[j].today)
         /\ loc[j].yesterday_df =
              IF loc[j].loaded.n \in DOMAIN written[j[2]]
              THEN Df(ReadCsv(written[j[2]][loc[j].loaded.n]))
              ELSE None

C9_Witness ==
  \E j \in JobIds :
    /\ pc[j] = "detect"
    /\ loc[j].yesterday_df # None
    /\ \E m \in Markets : m # j[2] /\ DOMAIN written[m] # {}

\* C10 (as stated): a storage failure while saving today's snapshot propagates
\* as an exception out of the job.
C10_SaveFailurePropagates ==
  (Finished /\ last.fault = "save failed") => last.status = "raised"

\* C10 (amended): a storage failure while saving today's snapshot is caught
\* like a fetch failure: the job returns success=false with the message in
\* error; it does not propagate.
C10_SaveFailureCaptured ==
  (Finished /\ last.fault = "save failed") =>
    /\ last.status = "returned"
    /\ ~last.result.success
    /\ last.result.error = Str("save failed")
    /\ last.result.top10 # None

C10_Witness ==
  /\ Finished
  /\ last.fault = "save failed"
  /\ last.job[1] = "batch"

\* C11: on non-empty ranked tables detect_rotation returns exactly one signal
\* for each sector of today's top 10 names that is not among yesterday's top 10
\* names, and no other signal (none for a sector of yesterday's top 10, none
\* twice for one sector).
TopNames(df) ==
  {df.rows[i].sector_name : i \in {k \in 1..Len(df.rows) : k <= TopN}}

FullRank(yesterday_df, sector) ==
  LET full == RankByInflow(yesterday_df, Len(yesterday_df.rows)).rows
  IN IF \E i \in 1..Len(full) : full[i].sector_name = sector
     THEN IntVal((CHOOSE i \in 1..Len(full) : full[i].sector_name = sector))
     ELSE Str(">10")

C12_PreviousRankFromFullTable ==
  call.op = "rotation_step" =>
    \A g \in call.ret :
      g.yesterday_rank = FullRank(call.yesterday_df, g.sector_name)

\* C13: rank_by_inflow returns the first min(top_n, n) rows of the table sorted
\* by inflow descending: the row at position i has rank i, the rows are rows
\* of the input, and no returned row has a smaller inflow than a cut-off row.
Min(a, b) == IF a < b THEN a ELSE b
Pos(rows, name) == CHOOSE i \in 1..Len(rows) : rows[i].sector_name = name

C13_RankedDescendingThenTruncated ==
  (call.op = "rank_by_inflow" /\ call.df # None) =>
    LET in == call.df.rows
        out == call.ret.rows
        kept == {out[i].sector_name : i \in 1..Len(out)}
    IN /\ Len(out) = Min(call.top_n, Len(in))
       /\ Cardinality(kept) = Len(out)
       /\ \A i \in 1..Len(out) :
            /\ out[i].rank = i
            /\ \E k \in 1..Len(in) : in[k] = Row(out[i].sector_name, out[i].main_inflow)
            /\ \A j \in 1..Len(out) : i < j => out[i].main_inflow >= out[j].main_inflow
            /\ \A k \in 1..Len(in) :
                 in[k].sector_name \notin kept => out[i].main_inflow >= in[k].main_inflow

C13_Witness ==
  /\ call.op = "rank_by_inflow"
  /\ call.df # None
  /\ Len(call.df.rows) = MaxLen
  /\ call.top_n = 2
  /\ call.ret.rows[1].sector_name = "C"
  /\ call.ret.rows[2].sector_name = "A"

\* C14: rank_by_inflow is a stable sort: two rows with equal inflow keep their
\* relative input order in the result, for every input table.
C14_StableSort ==
  (call.op = "rank_by_inflow" /\ call.df # None) =>
    LET in == call.df.rows
        out == call.ret.rows
    IN \A i \in 1..Len(out), j \in 1..Len(out) :
         (i < j /\ out[i].main_inflow = out[j].main_inflow) =>
           Pos(in, out[i].sector_name) < Pos(in, out[j].sector_name)

\* C15: a load right after save(market, date, T) of a non-empty table T returns
\* a table with the row count of T and the set of sector_name values of T,
\* whichever date form is used for the save and for the load.
NameSet(rows) == {rows[i].sector_name : i \in 1..Len(rows)}

C15_SnapshotRoundTrip ==
  call.op = "save_load" =>
    /\ call.ret # None
    /\ Len(call.ret.rows) = Len(call.df.rows)
    /\ NameSet(call.ret.rows) = NameSet(call.df.rows)

Friday == Monday + 4
IsWeekday(d) == Weekday(d) \in Monday..Friday

C17_PriorWeekdayDomesticAndHongKong ==
  (call.op = "get_last_trade_date" /\ call.market \in {"a_share", "hk"}) =>
    LET d == call.date_str.n
        prev == call.ret.n
    IN /\ call.ret = Strftime(prev)
       /\ prev < d
       /\ IsWeekday(prev)
       /\ \A e \in (prev + 1)..(d - 1) : ~IsWeekday(e)
       /\ Weekday(d) \in (Monday + 1)..(Friday + 1) => prev = d - 1
       /\ Weekday(d) \notin (Monday + 1)..(Friday + 1) =>
            (Weekday(prev) = Friday /\ d - prev <= 3)

C17_Witness ==
  /\ call.op = "get_last_trade_date"
  /\ call.market = "hk"
  /\ Weekday(call.date_str.n) = Friday + 2
  /\ call.date_str.form = "compact"
  /\ call.ret.n = call.date_str.n - 2

\* C18: for us the prior trading date of a Monday reference date is 3 days
\* back (the preceding Friday) and of a reference date on any other day of the
\* week exactly 1 day back.
C18_PriorDateUs ==
  (call.op = "get_last_trade_date" /\ call.market = "us") =>
    LET d == call.date_str.n
    IN IF Weekday(d) = Monday
       THEN call.ret = Strftime(d - 3) /\ Weekday(d - 3) = Friday
       ELSE call.ret = Strftime(d - 1)

C18_Witness ==
  /\ call.op = "get_last_trade_date"
  /\ call.market = "us"
  /\ call.date_str.n > 0
  /\ Weekday(call.date_str.n) = Monday
  /\ call.ret.n = call.date_str.n - 3

\* C19: a missing prior-trading-day snapshot is not a failure: rotation
\* detection is skipped (nothing of it can fail), the signal list stays empty
\* and the job completes with success=true.
C19_MissingPriorIsNotFailure ==
  [][\A j \in JobIds :
       (pc[j] \in {"detect", "charts"} /\ loc[j].yesterday_df = None
          /\ pc'[j] # pc[j]) =>
         IF pc[j] = "detect"
         THEN /\ pc'[j] = "charts"
              /\ loc'[j].result.rotation_signals = {}
              /\ nFaults' = nFaults
         ELSE /\ pc'[j] = "idle"
              /\ last'.job = j
              /\ last'.status = "returned"
              /\ last'.result.success
              /\ last'.result.error = None
              /\ last'.result.rotation_signals = {}]_vars

C19_Witness ==
  /\ Finished
  /\ last.job[1] = "cron"
  /\ last.result.success
  /\ last.result.rotation_signals = {}
  /\ DOMAIN written[last.job[2]] = {0}
  /\ nFaults < MaxFaults

\* C20: when the fetch of today's table returns an empty or null table, or
\* raises, the job ends at once with success=false and an error message: no
\* ranking, save, load or chart step runs and the snapshot store is unchanged.
C20_FetchFailureEndsJob ==
  [][\A j \in JobIds :
       (pc[j] = "fetch" /\ pc'[j] # "fetch") =>
         \/ /\ pc'[j] = "rank"
            /\ loc'[j].today_df # None
            /\ loc'[j].today_df.rows # <<>>
         \/ /\ pc'[j] = "idle"
            /\ last'.job = j
            /\ last'.fault \in {"fetch failed", "empty data"}
            /\ last'.status = "returned"
            /\ ~last'.result.success
            /\ last'.result.error = Str(last'.fault)
            /\ last'.result.top10 = None
            /\ last'.result.rotation_signals = {}
            /\ last'.result.chart_files = <<>>
            /\ store' = store
            /\ written' = written]_vars

C20_Witness ==
  /\ Finished
  /\ last.fault = "empty data"
  /\ ~last.result.success
  /\ DOMAIN written[last.job[2]] # {}

\* C21 (as stated): when any rendering call of the chart collaborator raises,
\* the job still returns success=true with its ranking and rotation signals,
\* and the result carries no charts.
C21_ChartFailureDropsCharts ==
  (Finished /\ last.fault = "charts failed") =>
    /\ last.status = "returned"
    /\ last.result.success
    /\ last.result.error = None
    /\ last.result.top10 # None
    /\ last.result.chart_files = <<>>

\* C22 (as stated): over any sequence of jobs the fetcher factory is called at
\* most once per market, and every later job of the market uses the identical
\* fetcher object.
FactoryCalls(trace, m) ==
  {i \in 1..Len(trace) : trace[i].market = m /\ trace[i].created}
Served(trace, m) ==
  {i \in 1..Len(trace) : trace[i].market = m /\ trace[i].ret # None}

C22_FactoryCalledOncePerMarket ==
  call.op = "get_fetcher" =>
    \A m \in Markets \cup {UnknownMarket} :
      /\ Cardinality(FactoryCalls(call.trace, m)) <= 1
      /\ \A i, k \in Served(call.trace, m) : call.trace[i].ret = call.trace[k].ret

\* C22 (amended): the factory returns at most one fetcher object per market:
\* it is called by a job exactly when no earlier job of the market obtained a
\* fetcher (a call that raised cached nothing and is repeated by the next job),
\* every job of the market that obtains a fetcher obtains the identical object,
\* and two markets never share an object.
C22_OneFetcherPerMarket ==
  call.op = "get_fetcher" =>
    LET trace == call.trace
    IN /\ \A m \in Markets \cup {UnknownMarket} :
            /\ Cardinality(FactoryCalls(trace, m) \cap Served(trace, m)) <= 1
            /\ \A i, k \in Served(trace, m) : trace[i].ret = trace[k].ret
            /\ m \notin Markets => Served(trace, m) = {}
       /\ \A i \in 1..Len(trace) :
            trace[i].created <=>
              (\A k \in 1..(i - 1) : k \notin Served(trace, trace[i].market))
       /\ \A i, k \in 1..Len(trace) :
            (trace[i].ret # None /\ trace[i].ret = trace[k].ret) =>
              trace[i].market = trace[k].market

C22_Witness ==
  /\ call.op = "get_fetcher"
  /\ Len(call.trace) = MaxJobs
  /\ \A i \in 1..MaxJobs : call.trace[i].market = "us"
  /\ call.trace[1].created /\ call.trace[1].ret = None
  /\ call.trace[2].created /\ call.trace[2].ret # None
  /\ ~call.trace[MaxJobs].created
  /\ call.trace[MaxJobs].ret = call.trace[2].ret

\* C23: every completed job, started by run_once or by a recurring trigger,
\* successful or failed, is eventually part of the results handed to the
\* report collaborator.
C23_EveryOutcomeReported ==
  \A j \in JobIds :
    (Finished /\ last.job = j /\ last.status = "returned") ~>
      (/\ batch.report # None
       /\ j[1] = "batch"
       /\ j[2] \in DOMAIN batch.report
       /\ "error" \in DOMAIN batch.report[j[2]])

\* C24: with fewer than 2 valid (non-missing) inflow values of the sector
\* inside the window, calculate_trend_strength returns the neutral result
\* (trend_score 0, direction neutral) with an error flag.
ValidInWindow(df, sector_name, days) ==
  LET sector_df == SelectSeq(df.rows, LAMBDA r : r.sector_name = sector_name)
      window == HeadN(SortByDateDesc(sector_df), days)
  IN Len(SelectSeq(window, LAMBDA r : r.main_inflow # NaN))

C24_FewPointsNeutral ==
  (/\ call.op = "calculate_trend_strength"
   /\ call.df # None
   /\ ValidInWindow(call.df, call.sector_name, call.days) < 2) =>
    /\ call.ret.trend_score = 0
    /\ call.ret.trend_direction = "neutral"
    /\ "error" \in DOMAIN call.ret

\* C25: rank_by_inflow of a null or empty table returns an empty table, and
\* detect_rotation returns an empty signal list whenever today's or
\* yesterday's table is null or empty; neither raises.
IsEmptyInput(df) == df = None \/ df.rows = <<>>

C25_EmptyInputSafety ==
  /\ (call.op = "rank_by_inflow" /\ IsEmptyInput(call.df)) =>
       call.ret = Df(<<>>)
  /\ (call.op = "detect_rotation"
        /\ (IsEmptyInput(call.today_df) \/ IsEmptyInput(call.yesterday_df))) =>
       call.ret = {}

C25_Witness ==
  /\ call.op = "detect_rotation"
  /\ call.yesterday_df = None
  /\ ~IsEmptyInput(call.today_df)
  /\ Len(call.today_df.rows) = TopN
  /\ call.ret = {}

\* C26: within one job the steps run in the order resolve fetcher, fetch,
\* rank, save, load, detect, charts: a step is entered only from the step
\* before it, when that step completed without failure; a failing step ends the
\* job with no later step run, and the job still returns a result (success
\* exactly when the last step was reached); the store is written by the save
\* step only.
StepOrder == <<"get_fetcher", "fetch", "rank", "save", "load", "detect", "charts">>
Steps == {StepOrder[i] : i \in 1..Len(StepOrder)}

C27_UpdateScheduleFrame ==
  [][\A m \in UpdateMarkets, t \in UpdateTimes, e \in UpdateEnabled :
       UpdateSchedule(m, t, e) =>
         /\ fetchers' = fetchers
         /\ store' = store
         /\ written' = written
         /\ jobstore' = jobstore
         /\ pc' = pc /\ loc' = loc /\ batch' = batch
         /\ IF m \in Markets
            THEN /\ upd' = "ok"
                 /\ \A o \in Markets \ {m} : schedules'[o] = schedules[o]
                 /\ schedules'[m].market = schedules[m].market
                 /\ schedules'[m].days_of_week = schedules[m].days_of_week
                 /\ schedules'[m].schedule_time =
                      IF t = "" THEN schedules[m].schedule_time ELSE t
                 /\ schedules'[m].enabled =
                      CASE e = "True" -> TRUE
                        [] e = "False" -> FALSE
                        [] OTHER -> schedules[m].enabled
            ELSE /\ upd' = "ValueError"
                 /\ schedules' = schedules]_vars

C27_Witness ==
  /\ upd = "ok"
  /\ schedules["hk"].schedule_time = "06:00"
  /\ ~schedules["hk"].enabled
  /\ schedules["us"] = DEFAULT_SCHEDULES["us"]
  /\ "hk" \in fetchers
  /\ DOMAIN written["hk"] # {}
  /\ jobstore["hk"] # None

\* C28: under the default schedules, for every market and every day on which
\* its recurring job is scheduled, the prior trading date computed for that
\* day is itself a day on which the market's job is scheduled.
ScheduledDay(market, d) ==
  DayOfWeekMatches(DEFAULT_SCHEDULES[market].days_of_week, d)

C28_PriorDateIsScheduledDay ==
  (/\ call.op = "get_last_trade_date"
   /\ ScheduledDay(call.market, call.date_str.n)) =>
    ScheduledDay(call.market, call.ret.n)

\* C29: an update_schedule call on one scheduler built with the default
\* schedules never changes the schedules seen by another scheduler built with
\* the default schedules, nor the class-level DEFAULT_SCHEDULES.
C29_SchedulesPrivate ==
  call.op = "update_schedule_shared" =>
    /\ call.second = call.second_before
    /\ call.default = call.default_before

\* C30: every result returned by run_single_market is consistent: success=true
\* implies error null and a non-null top-10 table, success=false implies a
\* non-null error; every skip marker in run_all_markets' results has
\* success=false.
Consistent(result) ==
  IF result.success
  THEN result.error = None /\ result.top10 # None
  ELSE result.error # None

C30_ResultConsistent ==
  /\ (Finished /\ last.status = "returned") => Consistent(last.result)
  /\ \A m \in DOMAIN batch.results :
       IF "skipped" \in DOMAIN batch.results[m]
       THEN ~batch.results[m].success
       ELSE Consistent(batch.results[m])

C30_Witness ==
  /\ batch.pc = "done"
  /\ "skipped" \in DOMAIN batch.results["hk"]
  /\ batch.results["a_share"].success
  /\ ~batch.results["us"].success
  /\ batch.results["us"].error = Str("empty data")

TypeOK ==
  /\ fetchers \subseteq Markets
  /\ due \subseteq Markets
  /\ nRuns \in 0..MaxRuns

====
